---- MODULE Spec2Model ----
(***************************************************************************)
(* Model of the virtual CPU of hivemind-rs (src/vcpu): the three structs   *)
(* that hold a word store (VCPU16, Memory, HiveCPU), their image           *)
(* load/save, their word accessors, and the VCPU16 decoder and step.       *)
(*                                                                         *)
(* One behaviour follows ONE object of one of the three structs (`kind`);  *)
(* the structs share no state, so nothing is lost by following them one at *)
(* a time.  The word array is stored sparsely: only the non-zero words are *)
(* kept, every other index of the array reads 0.  All words and addresses  *)
(* keep their 16-bit width.                                                *)
(*                                                                         *)
(* Two properties of the build are not fixed by the source and are drawn   *)
(* in Init: whether integer overflow checks are compiled in (a debug       *)
(* build panics on u16 overflow, a release build wraps) and the byte order *)
(* of the target (the image is the raw bytes of the u16 array).            *)
(*                                                                         *)
(* The component store of src/model/entity.rs (ComponentType: a vector of  *)
(* slots and a free list of indices) is followed the same way, as a fourth *)
(* kind of object, in `data` and `free`.                                   *)
(***************************************************************************)
EXTENDS Integers, FiniteSets, Sequences, TLC

\* ---------------------------------------------------------------- bounds
\* the number of step() calls one behaviour makes
MaxTicks == 2
\* the number of direct calls of an operand decoder one behaviour makes
MaxDecodes == 1
\* the longest ComponentType.data and ComponentType.free
MaxData == 2
MaxFree == 3

\* -------------------------------------------------------------- constants
\* 2^16: the number of values of a u16
WordMod == 65536
\* length of VCPU16.memory and Memory.data
MemoryWords == 65536
\* length of HiveCPU.ram
RamWords == 65535
\* the image size the tests use: 131,072 bytes
ImageBytes == 131072

\* Register indices (enum Register)
A == 0
B == 1
C == 2
X == 3
Y == 4
Z == 5
I == 6
J == 7
PC == 8
SP == 9
EX == 10
IA == 11

Kinds == {"VCPU16", "Memory", "HiveCPU"}

VARIABLES
    kind,             \* which struct the object is
    registers,        \* VCPU16.registers : [u16; 12]
    memory,           \* VCPU16.memory / Memory.data / HiveCPU.ram (non-zero words)
    state,            \* VCPU16.state
    panicked,         \* a panic has unwound out of the last call
    overflow_checks,  \* build: u16 overflow panics (TRUE) or wraps (FALSE)
    big_endian,       \* build: byte order of the target
    written,          \* what the writer received, when the last call was save_memory
    loaded,           \* the image of the last load_memory, while memory still holds it
    last,             \* the last call made and its argument / result
    decoded,          \* the Decoded<Instruction> of the last step (its locals)
    ticks,            \* number of step() calls made
    entry,            \* the registers as they were when the last call was made
    data,             \* ComponentType.data : Vec<Component<C>>
    free              \* ComponentType.free : Vec<usize>

vars == <<kind, registers, memory, state, panicked, overflow_checks,
          big_endian, written, loaded, last, decoded, ticks, entry,
          data, free>>

\* ------------------------------------------------------------ word arrays
EmptyWords == [a \in {} |-> 0]

\* self.memory[address as usize] as a read, for an index inside the array
memory_read(m, a) == IF a \in DOMAIN m THEN m[a] ELSE 0

\* memory_write with the index taken modulo 65,535 (the array length of HiveCPU)
memory_write_short_index(m, a, v) ==
    [x \in (IF v = 0 THEN DOMAIN m \ {a % 65535} ELSE DOMAIN m \cup {a % 65535}) |->
        IF x = a % 65535 THEN v ELSE m[x]]

\* self.memory[address as usize] = value, for an index inside the array
memory_write(m, a, v) ==
    [x \in (IF v = 0 THEN DOMAIN m \ {a} ELSE DOMAIN m \cup {a}) |->
        IF x = a THEN v ELSE m[x]]

\* number of words of the array of the struct
array_len(k) == IF k = "HiveCPU" THEN RamWords ELSE MemoryWords

\* mem::size_of_val(&self.memory): the byte size of the array
memory_size(k) == 2 * array_len(k)

\* the byte at offset j of the array seen as raw bytes (slice::from_raw_parts_mut)
raw_byte(m, j, be) ==
    LET w == memory_read(m, j \div 2)
    IN  IF (j % 2 = 0) = (~be) THEN w % 256 ELSE w \div 256

\* the u16 whose two raw bytes are b0 (lower address) and b1
raw_word(b0, b1, be) == IF be THEN b0 * 256 + b1 ELSE b0 + 256 * b1

\* ------------------------------------------------------------------ images
\* A byte sequence is [len, bytes]: its length and its non-zero bytes by offset.
image_byte(img, j) == IF j \in DOMAIN img.bytes THEN img.bytes[j] ELSE 0

NoImage == [len |-> 0, bytes |-> EmptyWords]

\* the array after the first n bytes of its raw view were overwritten from img
copy_from_reader(m, img, n, be) ==
    LET byte(j) == IF j < n THEN image_byte(img, j) ELSE raw_byte(m, j, be)
        word(i) == raw_word(byte(2 * i), byte(2 * i + 1), be)
        cand    == DOMAIN m \cup {j \div 2 : j \in {x \in DOMAIN img.bytes : x < n}}
    IN  [i \in {c \in cand : word(c) # 0} |-> word(i)]

\* the first n raw bytes of the array, as a byte sequence
bytes_to_writer(m, n, be) ==
    LET offs == {j \in UNION {{2 * a, 2 * a + 1} : a \in DOMAIN m} :
                    j < n /\ raw_byte(m, j, be) # 0}
    IN  [len |-> n, bytes |-> [j \in offs |-> raw_byte(m, j, be)]]

\* ----------------------------------------------------------------- inputs
\* byte offsets and values the readers' images are built from
ImagePattern == (0 :> 1) @@ (1 :> 124) @@ (131071 :> 18)
\* reader lengths: empty, one byte short, exact
ImageLens == {0, 131071, 131072}
Images ==
    {[len |-> n, bytes |-> [j \in {x \in S : x < n} |-> ImagePattern[j]]] :
        n \in ImageLens, S \in SUBSET DOMAIN ImagePattern}
\* what one call of Write::write may answer: Err (-1), or Ok(n) for n up to
\* the slice length: a pipe buffer of 65,536 bytes, 131,070, or all 131,072
WriteErr == 0 - 1
WriterAccepts == {WriteErr, 65536, 131070, 131072}
\* addresses and values of the accessor calls
Addrs == {0, 65535}
Values == {0, 1024, 24577, 65535}

\* ------------------------------------------------------------ constructors
\* a register file whose SP starts at the top of the stack
RegistersStackTop == [r \in 0..11 |-> IF r = 9 THEN 65535 ELSE 0]

\* registers: [0; 12]
ZeroRegisters == [r \in 0..11 |-> 0]
Idle == [tag |-> "Idle"]
\* no step has been made by the last call
NoDecoded == [result |-> [op |-> "none"], time |-> 0]

Call(op, a, v) == [op |-> op, address |-> a, value |-> v]

\* VCPU16::new / Memory::new / HiveCPU::new
new(k) ==
    /\ ~panicked
    /\ kind' = k
    /\ registers' = ZeroRegisters
    /\ memory' = EmptyWords
    /\ state' = Idle
    /\ written' = NoImage
    /\ loaded' = NoImage
    /\ ticks' = 0
    /\ last' = Call("new", 0, 0)
    /\ decoded' = NoDecoded
    /\ entry' = registers
    /\ UNCHANGED <<data, free>>
    /\ UNCHANGED <<panicked, overflow_checks, big_endian>>

\* set_memory: self.memory[address as usize] = value
set_memory(a, v) ==
    /\ ~panicked
    /\ IF a < array_len(kind)
         THEN /\ memory' = memory_write(memory, a, v)
              /\ panicked' = FALSE
         ELSE \* index out of bounds
              /\ memory' = memory
              /\ panicked' = TRUE
    /\ loaded' = NoImage
    /\ written' = NoImage
    /\ last' = Call("set_memory", a, v)
    /\ decoded' = NoDecoded
    /\ entry' = registers
    /\ UNCHANGED <<data, free>>
    /\ UNCHANGED <<kind, registers, state, overflow_checks, big_endian, ticks>>

\* get_memory: self.memory[address as usize]
get_memory(a) ==
    /\ ~panicked
    /\ IF a < array_len(kind)
         THEN /\ last' = Call("get_memory", a, memory_read(memory, a))
              /\ panicked' = FALSE
         ELSE /\ last' = Call("get_memory", a, 0)
              /\ panicked' = TRUE
    /\ written' = NoImage
    /\ decoded' = NoDecoded
    /\ entry' = registers
    /\ UNCHANGED <<data, free>>
    /\ UNCHANGED <<kind, registers, memory, state, overflow_checks, big_endian,
                   loaded, ticks>>

\* load_memory: reader.read_exact(memory_slice).unwrap()
load_memory(img) ==
    /\ ~panicked
    /\ IF img.len >= memory_size(kind)
         THEN /\ memory' = copy_from_reader(memory, img, memory_size(kind), big_endian)
              /\ loaded' = img
              /\ panicked' = FALSE
         ELSE \* read_exact answers Err(UnexpectedEof) and unwrap panics; the
              \* buffer contents are unspecified: untouched, or the bytes read
              /\ \/ memory' = memory
                 \/ memory' = copy_from_reader(memory, img, img.len, big_endian)
              /\ loaded' = NoImage
              /\ panicked' = TRUE
    /\ written' = NoImage
    /\ last' = Call("load_memory", img.len, 0)
    /\ decoded' = NoDecoded
    /\ entry' = registers
    /\ UNCHANGED <<data, free>>
    /\ UNCHANGED <<kind, registers, state, overflow_checks, big_endian, ticks>>

\* save_memory: writer.write(memory_slice).unwrap()
save_memory(n) ==
    /\ ~panicked
    /\ n <= memory_size(kind)
    /\ IF n # WriteErr
         THEN /\ written' = bytes_to_writer(memory, n, big_endian)
              /\ panicked' = FALSE
         ELSE /\ written' = NoImage
              /\ panicked' = TRUE
    /\ last' = Call("save_memory", 0, n)
    /\ decoded' = NoDecoded
    /\ entry' = registers
    /\ UNCHANGED <<data, free>>
    /\ UNCHANGED <<kind, registers, memory, state, overflow_checks, big_endian,
                   loaded, ticks>>

\* ---------------------------------------------------------------- decoder
\* u16 `x + y` and `x - y`: the wrapped value, and whether a build with
\* overflow checks panics on it
u16_add(x, y, chk) == [value |-> (x + y) % WordMod, panic |-> chk /\ x + y >= WordMod]
u16_sub(x, y, chk) == [value |-> (x - y + WordMod) % WordMod, panic |-> chk /\ x < y]

\* enum Value
value_register(regs, r) == [kind |-> "Register", register |-> r, value |-> regs[r]]
value_memory(mem, address) ==
    [kind |-> "Memory", address |-> address, value |-> memory_read(mem, address)]
value_literal(v) == [kind |-> "Literal", value |-> v]
value_none == [kind |-> "None"]

\* struct Decoded<T>, together with the register file the decoding leaves and
\* whether it panicked (the registers are then those at the panic)
Decoded(result, time, regs, panic) ==
    [result |-> result, time |-> time, registers |-> regs, panic |-> panic]
Panicked(regs) == Decoded(value_none, 0, regs, TRUE)

\* [register + NEXT] and [SP + NEXT]: base + memory[PC], then PC += 1
operand_indexed(regs, mem, chk, base_reg) ==
    LET base    == regs[base_reg]
        next    == regs[PC]
        offset  == memory_read(mem, next)
        address == u16_add(base, offset, chk)
        pc      == u16_add(regs[PC], 1, chk)
    IN  IF address.panic \/ pc.panic
          THEN Panicked(regs)
          ELSE Decoded(value_memory(mem, address.value), 1,
                       [regs EXCEPT ![PC] = pc.value], FALSE)

\* [NEXT]: memory[memory[PC]], then PC += 1
operand_next(regs, mem, chk) ==
    LET next    == regs[PC]
        address == memory_read(mem, next)
        pc      == u16_add(regs[PC], 1, chk)
    IN  IF pc.panic
          THEN Panicked(regs)
          ELSE Decoded(value_memory(mem, address), 1, [regs EXCEPT ![PC] = pc.value], FALSE)

\* NEXT (literal): memory[PC]; the statement `self.registers[PC];` has no effect
operand_literal_next(regs, mem) ==
    Decoded(value_literal(memory_read(mem, regs[PC])), 1, regs, FALSE)

\* decode_left with inline literals counted from 0x20: code c yields c - 0x20
decode_left_literal_from_0x20(regs, mem, chk, instruction_word) ==
    LET c == (instruction_word \div 1024) % 64
    IN  CASE c \in 0..7   -> Decoded(value_register(regs, c), 0, regs, FALSE)
          [] c = 8        -> Decoded(value_memory(mem, regs[A]), 0, regs, FALSE)
          [] c = 9        -> Decoded(value_memory(mem, regs[A]), 0, regs, FALSE)
          [] c \in 10..15 -> Decoded(value_memory(mem, regs[c - 8]), 0, regs, FALSE)
          [] c \in 16..23 -> operand_indexed(regs, mem, chk, c - 16)
          [] c = 24       -> \* POP: [SP], then SP += 1
                LET sp == u16_add(regs[SP], 1, chk)
                IN  IF sp.panic
                      THEN Panicked(regs)
                      ELSE Decoded(value_memory(mem, regs[SP]), 0,
                                   [regs EXCEPT ![SP] = sp.value], FALSE)
          [] c = 25       -> Decoded(value_memory(mem, regs[SP]), 0, regs, FALSE)
          [] c = 26       -> operand_indexed(regs, mem, chk, SP)
          [] c = 27       -> Decoded(value_register(regs, SP), 0, regs, FALSE)
          [] c = 28       -> Decoded(value_register(regs, PC), 0, regs, FALSE)
          [] c = 29       -> Decoded(value_register(regs, EX), 0, regs, FALSE)
          [] c = 30       -> operand_next(regs, mem, chk)
          [] c = 31       -> operand_literal_next(regs, mem)
          [] c \in 32..63 -> Decoded(value_literal(c - 32), 0, regs, FALSE)

\* decode_left: the operand named by bits 10..15 of the word
decode_left(regs, mem, chk, instruction_word) ==
    LET c == (instruction_word \div 1024) % 64
    IN  CASE c \in 0..7   -> Decoded(value_register(regs, c), 0, regs, FALSE)
          [] c = 8        -> Decoded(value_memory(mem, regs[A]), 0, regs, FALSE)
          [] c = 9        -> Decoded(value_memory(mem, regs[A]), 0, regs, FALSE)
          [] c \in 10..15 -> Decoded(value_memory(mem, regs[c - 8]), 0, regs, FALSE)
          [] c \in 16..23 -> operand_indexed(regs, mem, chk, c - 16)
          [] c = 24       -> \* POP: [SP], then SP += 1
                LET sp == u16_add(regs[SP], 1, chk)
                IN  IF sp.panic
                      THEN Panicked(regs)
                      ELSE Decoded(value_memory(mem, regs[SP]), 0,
                                   [regs EXCEPT ![SP] = sp.value], FALSE)
          [] c = 25       -> Decoded(value_memory(mem, regs[SP]), 0, regs, FALSE)
          [] c = 26       -> operand_indexed(regs, mem, chk, SP)
          [] c = 27       -> Decoded(value_register(regs, SP), 0, regs, FALSE)
          [] c = 28       -> Decoded(value_register(regs, PC), 0, regs, FALSE)
          [] c = 29       -> Decoded(value_register(regs, EX), 0, regs, FALSE)
          [] c = 30       -> operand_next(regs, mem, chk)
          [] c = 31       -> operand_literal_next(regs, mem)
          [] c = 32       -> Decoded(value_literal(65535), 0, regs, FALSE)
          [] c \in 33..63 -> Decoded(value_literal(c - 33), 0, regs, FALSE)

\* decode_right with a [B] arm that reads register B
decode_right_reads_B(regs, mem, chk, instruction_word) ==
    LET c == (instruction_word \div 32) % 32
    IN  CASE c \in 0..7   -> Decoded(value_register(regs, c), 0, regs, FALSE)
          [] c = 8        -> Decoded(value_memory(mem, regs[A]), 0, regs, FALSE)
          [] c = 9        -> Decoded(value_memory(mem, regs[B]), 0, regs, FALSE)
          [] c \in 10..15 -> Decoded(value_memory(mem, regs[c - 8]), 0, regs, FALSE)
          [] c \in 16..23 -> operand_indexed(regs, mem, chk, c - 16)
          [] c = 24       -> \* PUSH: SP -= 1, then [SP]
                LET sp == u16_sub(regs[SP], 1, chk)
                IN  IF sp.panic
                      THEN Panicked(regs)
                      ELSE Decoded(value_memory(mem, sp.value), 0,
                                   [regs EXCEPT ![SP] = sp.value], FALSE)
          [] c = 25       -> Decoded(value_memory(mem, regs[SP]), 0, regs, FALSE)
          [] c = 26       -> operand_indexed(regs, mem, chk, SP)
          [] c = 27       -> Decoded(value_register(regs, SP), 0, regs, FALSE)
          [] c = 28       -> Decoded(value_register(regs, PC), 0, regs, FALSE)
          [] c = 29       -> Decoded(value_register(regs, EX), 0, regs, FALSE)
          [] c = 30       -> operand_next(regs, mem, chk)
          [] c = 31       -> operand_literal_next(regs, mem)

\* decode_right: the operand named by bits 5..9 of the word
decode_right(regs, mem, chk, instruction_word) ==
    LET c == (instruction_word \div 32) % 32
    IN  CASE c \in 0..7   -> Decoded(value_register(regs, c), 0, regs, FALSE)
          [] c = 8        -> Decoded(value_memory(mem, regs[A]), 0, regs, FALSE)
          [] c = 9        -> Decoded(value_memory(mem, regs[A]), 0, regs, FALSE)
          [] c \in 10..15 -> Decoded(value_memory(mem, regs[c - 8]), 0, regs, FALSE)
          [] c \in 16..23 -> operand_indexed(regs, mem, chk, c - 16)
          [] c = 24       -> \* PUSH: SP -= 1, then [SP]
                LET sp == u16_sub(regs[SP], 1, chk)
                IN  IF sp.panic
                      THEN Panicked(regs)
                      ELSE Decoded(value_memory(mem, sp.value), 0,
                                   [regs EXCEPT ![SP] = sp.value], FALSE)
          [] c = 25       -> Decoded(value_memory(mem, regs[SP]), 0, regs, FALSE)
          [] c = 26       -> operand_indexed(regs, mem, chk, SP)
          [] c = 27       -> Decoded(value_register(regs, SP), 0, regs, FALSE)
          [] c = 28       -> Decoded(value_register(regs, PC), 0, regs, FALSE)
          [] c = 29       -> Decoded(value_register(regs, EX), 0, regs, FALSE)
          [] c = 30       -> operand_next(regs, mem, chk)
          [] c = 31       -> operand_literal_next(regs, mem)

\* enum Instruction
ERR == [op |-> "ERR"]
Unary(op, left) == [op |-> op, left |-> left]
Binary(op, left, right) == [op |-> op, left |-> left, right |-> right]

\* decode_nullary: selected by bits 10..15
decode_nullary(regs, instruction_word) ==
    LET c == (instruction_word \div 1024) % 64
    IN  CASE c = 0 -> Decoded([op |-> "NOP"], 0, regs, FALSE)
          [] c = 1 -> Decoded([op |-> "HIB"], 0, regs, FALSE)
          [] OTHER -> Decoded(ERR, 0, regs, FALSE)

\* the match of decode_unary: name and base time by bits 5..9
UnaryTable ==
    (1 :> <<"JSR", 3>>) @@ (8 :> <<"INT", 4>>) @@ (9 :> <<"IAG", 1>>) @@
    (10 :> <<"IAS", 1>>) @@ (11 :> <<"RFI", 3>>) @@ (12 :> <<"IAQ", 2>>) @@
    (16 :> <<"HWN", 2>>) @@ (17 :> <<"HWQ", 4>>) @@ (18 :> <<"HWI", 4>>)

\* decode_unary: the operand is decoded first, whatever bits 5..9 select
decode_unary(regs, mem, chk, instruction_word) ==
    LET left == decode_left(regs, mem, chk, instruction_word)
        o    == (instruction_word \div 32) % 32
    IN  IF left.panic THEN left
        ELSE IF o \in DOMAIN UnaryTable
          THEN Decoded(Unary(UnaryTable[o][1], left.result),
                       UnaryTable[o][2] + left.time, left.registers, FALSE)
          ELSE Decoded(ERR, 0, left.registers, FALSE)

\* the match of decode_binary: name and base time by bits 0..4
BinaryTable ==
    (1 :> <<"SET", 0>>) @@ (2 :> <<"ADD", 2>>) @@ (3 :> <<"SUB", 2>>) @@
    (4 :> <<"MUL", 2>>) @@ (5 :> <<"MLI", 2>>) @@ (6 :> <<"DIV", 3>>) @@
    (7 :> <<"DVI", 3>>) @@ (8 :> <<"MOD", 3>>) @@ (9 :> <<"MDI", 3>>) @@
    (10 :> <<"AND", 1>>) @@ (11 :> <<"BOR", 1>>) @@ (12 :> <<"XOR", 1>>) @@
    (13 :> <<"SHR", 1>>) @@ (14 :> <<"ASR", 1>>) @@ (15 :> <<"SHL", 1>>) @@
    (16 :> <<"IFB", 2>>) @@ (17 :> <<"IFC", 2>>) @@ (18 :> <<"IFE", 2>>) @@
    (19 :> <<"IFN", 2>>) @@ (20 :> <<"IFG", 2>>) @@ (21 :> <<"IFA", 2>>) @@
    (22 :> <<"IFL", 2>>) @@ (23 :> <<"IFU", 2>>) @@ (26 :> <<"ADX", 3>>) @@
    (27 :> <<"SBX", 3>>) @@ (30 :> <<"STI", 2>>) @@ (31 :> <<"STD", 2>>)

\* decode_binary: both operands are decoded by decode_left, one after the other
decode_binary(regs, mem, chk, instruction_word) ==
    LET left  == decode_left(regs, mem, chk, instruction_word)
        right == decode_left(left.registers, mem, chk, instruction_word)
        time  == left.time + right.time
        o     == instruction_word % 32
    IN  IF left.panic THEN left
        ELSE IF right.panic THEN right
        ELSE IF o \in DOMAIN BinaryTable
          THEN Decoded(Binary(BinaryTable[o][1], left.result, right.result),
                       BinaryTable[o][2] + time, right.registers, FALSE)
          ELSE IF o \in {24, 25, 28, 29}
            THEN Decoded(ERR, 1, right.registers, FALSE)
            ELSE Decoded(ERR, 0, right.registers, FALSE)

\* decode that takes every word whose opcode field is 0 for a nullary one
decode_nullary_by_opcode(regs, mem, chk) ==
    LET address          == regs[PC]
        instruction_word == memory_read(mem, address)
        pc               == u16_add(regs[PC], 1, chk)
        fetched          == [regs EXCEPT ![PC] = pc.value]
    IN  IF pc.panic THEN Panicked(regs)
        ELSE IF instruction_word % 32 = 0
          THEN decode_nullary(fetched, instruction_word)
          ELSE decode_binary(fetched, mem, chk, instruction_word)

\* decode: fetch the word at PC, PC += 1, then decode it by its class
decode(regs, mem, chk) ==
    LET address          == regs[PC]
        instruction_word == memory_read(mem, address)
        pc               == u16_add(regs[PC], 1, chk)
        fetched          == [regs EXCEPT ![PC] = pc.value]
    IN  IF pc.panic THEN Panicked(regs)
        ELSE IF instruction_word % 1024 = 0
          THEN decode_nullary(fetched, instruction_word)
        ELSE IF instruction_word % 32 = 0
          THEN decode_unary(fetched, mem, chk, instruction_word)
          ELSE decode_binary(fetched, mem, chk, instruction_word)

\* execute with a SET arm that assigns EX as well
execute_set_defines_ex(regs, instruction) ==
    IF instruction.op = "SET" THEN [regs EXCEPT ![EX] = 65535] ELSE regs

\* execute with a SET arm that stores the source value in register A whatever
\* the destination operand is
execute_set_stores_in_A(regs, instruction) ==
    IF instruction.op = "SET" THEN [regs EXCEPT ![A] = instruction.left.value] ELSE regs

\* execute: `match instruction { _ => {} }` changes nothing
execute(regs, instruction) == regs


\* step with a Halted arm that resumes: the CPU leaves Halted for Idle
step_halted_resumes ==
    /\ ~panicked
    /\ kind \in {"VCPU16", "HiveCPU"}
    /\ ticks < MaxTicks
    /\ ticks' = ticks + 1
    /\ IF kind = "HiveCPU"
         THEN /\ decoded' = NoDecoded
              /\ UNCHANGED <<registers, state, panicked>>
         ELSE CASE state.tag = "Idle" ->
                    LET d == decode(registers, memory, overflow_checks)
                    IN  /\ registers' = IF d.panic THEN d.registers
                                        ELSE execute(d.registers, d.result)
                        /\ panicked' = d.panic
                        /\ decoded' = IF d.panic THEN NoDecoded
                                      ELSE [result |-> d.result, time |-> d.time]
                        /\ state' = state
                [] state.tag = "Sleeping" ->
                    LET t == u16_sub(state.time, 1, overflow_checks)
                    IN  /\ panicked' = t.panic
                        /\ state' = IF t.panic THEN state
                                    ELSE [tag |-> "Sleeping", time |-> t.value]
                        /\ decoded' = NoDecoded
                        /\ UNCHANGED registers
                [] state.tag = "Halted" ->
                    /\ state' = Idle
                    /\ decoded' = NoDecoded
                    /\ UNCHANGED <<registers, panicked>>
                [] OTHER -> \* Busy, Hibernating: empty arms
                    /\ decoded' = NoDecoded
                    /\ UNCHANGED <<registers, state, panicked>>
    /\ written' = NoImage
    /\ last' = Call("step", registers[PC], memory_read(memory, registers[PC]))
    /\ entry' = registers
    /\ UNCHANGED <<data, free>>
    /\ UNCHANGED <<kind, memory, overflow_checks, big_endian, loaded>>

\* step with a decoder that keeps a hidden count of its calls and charges it
\* to the instruction
step_decode_counts_calls ==
    /\ ~panicked
    /\ kind \in {"VCPU16", "HiveCPU"}
    /\ ticks < MaxTicks
    /\ ticks' = ticks + 1
    /\ IF kind = "HiveCPU"
         THEN /\ decoded' = NoDecoded
              /\ UNCHANGED <<registers, state, panicked>>
         ELSE CASE state.tag = "Idle" ->
                    LET d == decode(registers, memory, overflow_checks)
                    IN  /\ registers' = IF d.panic THEN d.registers
                                        ELSE execute(d.registers, d.result)
                        /\ panicked' = d.panic
                        /\ decoded' = IF d.panic THEN NoDecoded
                                      ELSE [result |-> d.result, time |-> d.time + ticks]
                        /\ state' = state
                [] state.tag = "Sleeping" ->
                    LET t == u16_sub(state.time, 1, overflow_checks)
                    IN  /\ panicked' = t.panic
                        /\ state' = IF t.panic THEN state
                                    ELSE [tag |-> "Sleeping", time |-> t.value]
                        /\ decoded' = NoDecoded
                        /\ UNCHANGED registers
                [] OTHER -> \* Busy, Hibernating, Halted: empty arms
                    /\ decoded' = NoDecoded
                    /\ UNCHANGED <<registers, state, panicked>>
    /\ written' = NoImage
    /\ last' = Call("step", registers[PC], memory_read(memory, registers[PC]))
    /\ entry' = registers
    /\ UNCHANGED <<data, free>>
    /\ UNCHANGED <<kind, memory, overflow_checks, big_endian, loaded>>

\* step with an Idle arm that honours HIB: the CPU enters Hibernating
step_hib_hibernates ==
    /\ ~panicked
    /\ kind \in {"VCPU16", "HiveCPU"}
    /\ ticks < MaxTicks
    /\ ticks' = ticks + 1
    /\ IF kind = "HiveCPU"
         THEN /\ decoded' = NoDecoded
              /\ UNCHANGED <<registers, state, panicked>>
         ELSE CASE state.tag = "Idle" ->
                    LET d == decode(registers, memory, overflow_checks)
                    IN  /\ registers' = IF d.panic THEN d.registers
                                        ELSE execute(d.registers, d.result)
                        /\ panicked' = d.panic
                        /\ decoded' = IF d.panic THEN NoDecoded
                                      ELSE [result |-> d.result, time |-> d.time]
                        /\ state' = IF ~d.panic /\ d.result.op = "HIB"
                                      THEN [tag |-> "Hibernating"] ELSE state
                [] state.tag = "Sleeping" ->
                    LET t == u16_sub(state.time, 1, overflow_checks)
                    IN  /\ panicked' = t.panic
                        /\ state' = IF t.panic THEN state
                                    ELSE [tag |-> "Sleeping", time |-> t.value]
                        /\ decoded' = NoDecoded
                        /\ UNCHANGED registers
                [] OTHER -> \* Busy, Hibernating, Halted: empty arms
                    /\ decoded' = NoDecoded
                    /\ UNCHANGED <<registers, state, panicked>>
    /\ written' = NoImage
    /\ last' = Call("step", registers[PC], memory_read(memory, registers[PC]))
    /\ entry' = registers
    /\ UNCHANGED <<data, free>>
    /\ UNCHANGED <<kind, memory, overflow_checks, big_endian, loaded>>

\* VCPU16::step (HiveCPU::step has an empty body)
step ==
    /\ ~panicked
    /\ kind \in {"VCPU16", "HiveCPU"}
    /\ ticks < MaxTicks
    /\ ticks' = ticks + 1
    /\ IF kind = "HiveCPU"
         THEN /\ decoded' = NoDecoded
              /\ UNCHANGED <<registers, state, panicked>>
         ELSE CASE state.tag = "Idle" ->
                    LET d == decode(registers, memory, overflow_checks)
                    IN  /\ registers' = IF d.panic THEN d.registers
                                        ELSE execute(d.registers, d.result)
                        /\ panicked' = d.panic
                        /\ decoded' = IF d.panic THEN NoDecoded
                                      ELSE [result |-> d.result, time |-> d.time]
                        /\ state' = state
                [] state.tag = "Sleeping" ->
                    LET t == u16_sub(state.time, 1, overflow_checks)
                    IN  /\ panicked' = t.panic
                        /\ state' = IF t.panic THEN state
                                    ELSE [tag |-> "Sleeping", time |-> t.value]
                        /\ decoded' = NoDecoded
                        /\ UNCHANGED registers
                [] OTHER -> \* Busy, Hibernating, Halted: empty arms
                    /\ decoded' = NoDecoded
                    /\ UNCHANGED <<registers, state, panicked>>
    /\ written' = NoImage
    /\ last' = Call("step", registers[PC], memory_read(memory, registers[PC]))
    /\ entry' = registers
    /\ UNCHANGED <<data, free>>
    /\ UNCHANGED <<kind, memory, overflow_checks, big_endian, loaded>>

Init ==
    /\ kind \in Kinds
    /\ registers = ZeroRegisters
    /\ memory = EmptyWords
    /\ state = Idle
    /\ panicked = FALSE
    /\ overflow_checks \in BOOLEAN
    /\ big_endian \in BOOLEAN
    /\ written = NoImage
    /\ loaded = NoImage
    /\ last = Call("new", 0, 0)
    /\ decoded = NoDecoded
    /\ entry = registers
    /\ data = <<>>
    /\ free = <<>>
    /\ ticks = 0

Next ==
    \/ \E k \in Kinds : new(k)
    \/ \E a \in Addrs, v \in Values : set_memory(a, v)
    \/ \E a \in Addrs : get_memory(a)
    \/ \E img \in Images : load_memory(img)
    \/ \E n \in WriterAccepts : save_memory(n)
    \/ step

Spec == Init /\ [][Next]_vars

\* ------------------------------------------------- a VCPU16 found mid-run
\* The word aaaaaabbbbbooooo
instruction(a, b, o) == a * 1024 + b * 32 + o
\* operand codes, b-fields and opcodes of the instruction at PC
RunACodes == {0, 9, 16, 24, 26, 30, 31, 32, 33}
RunBCodes == {0, 1, 2, 24, 31}
RunOpcodes == {0, 1, 2, 18, 24}
\* the two words after the instruction
RunNextWords == {0, 65535}
RunPCs == {0, 65534, 65535}
RunSPs == {0, 65535}

\* A VCPU16 some way into a run.  step is the only writer of the registers
\* and writes PC and SP only: every step adds 1..3 to PC and 0..2 to SP (a
\* POP operand, decoded once by a unary and twice by a binary instruction),
\* so every pair (PC, SP) is reached by stepping a suitable program from
\* new(); in a build with overflow checks PC never wraps, so SP <= 2 * PC
\* there.  The host then places the words around PC with set_memory.
InitRun ==
    /\ kind = "VCPU16"
    /\ overflow_checks \in BOOLEAN
    /\ big_endian = FALSE
    /\ \E pc \in RunPCs, sp \in RunSPs :
        /\ overflow_checks => sp <= 2 * pc
        /\ registers = [ZeroRegisters EXCEPT ![PC] = pc, ![SP] = sp]
        /\ \E a \in RunACodes, b \in RunBCodes, o \in RunOpcodes,
              n1 \in RunNextWords, n2 \in RunNextWords :
            /\ memory = memory_write(memory_write(memory_write(EmptyWords,
                            (pc + 2) % WordMod, n2),
                            (pc + 1) % WordMod, n1),
                            pc, instruction(a, b, o))
            /\ last = Call("set_memory", pc, instruction(a, b, o))
    /\ state = Idle
    /\ panicked = FALSE
    /\ written = NoImage
    /\ loaded = NoImage
    /\ decoded = NoDecoded
    /\ entry = registers
    /\ data = <<>>
    /\ free = <<>>
    /\ ticks = 0

NextRun ==
    \/ step

SpecRun == InitRun /\ [][NextRun]_vars

\* ------------------------------------------ a VCPU16 running a program
\* instruction words
NOP_word == instruction(0, 0, 0)
HIB_word == instruction(1, 0, 0)
\* ADD A, B
ADD_A_B == instruction(1, 0, 2)
\* DIV [A], 0 : destination b = [A] (0x08), source a = literal 0 (0x21)
DIV_atA_0 == instruction(33, 8, 6)
\* MOD [A], 0
MOD_atA_0 == instruction(33, 8, 8)
\* JSR NEXT : unary, b-field 0x01, a = literal NEXT (0x1F)
JSR_NEXT == instruction(31, 1, 0)
\* IFN A, A (the test fails) and IFE A, A (the test passes)
IFN_A_A == instruction(0, 0, 19)
IFE_A_A == instruction(0, 0, 18)
\* SET B, 7 : a = literal 7 (0x28)
SET_B_7 == instruction(40, 1, 1)
\* SET PUSH, 7 and SET A, POP : 0x18 is PUSH as b and POP as a
SET_PUSH_7 == instruction(40, 24, 1)
SET_A_POP == instruction(24, 0, 1)
\* SET A, PICK n : a = [SP + NEXT] (0x1A)
SET_A_PICK == instruction(26, 0, 1)
\* SET EX, 7 : destination b = EX (0x1D)
SET_EX_7 == instruction(40, 29, 1)

\* the programs: the words at PC, PC + 1 and PC + 2
Programs == {
    <<NOP_word, NOP_word, NOP_word>>,
    <<HIB_word, NOP_word, NOP_word>>,
    <<ADD_A_B, NOP_word, NOP_word>>,
    <<DIV_atA_0, NOP_word, NOP_word>>,
    <<MOD_atA_0, NOP_word, NOP_word>>,
    <<JSR_NEXT, 4096, NOP_word>>,
    <<IFN_A_A, SET_B_7, NOP_word>>,
    <<IFE_A_A, SET_B_7, NOP_word>>,
    <<SET_PUSH_7, SET_A_POP, NOP_word>>,
    <<SET_EX_7, NOP_word, NOP_word>>,
    <<SET_A_PICK, 65535, NOP_word>> }
ProgPCs == {2}
ProgSPs == {0, 1, 65535}
\* the word at address 0, which [A] names while A is 0
ProgData == {0, 5}

\* A VCPU16 at PC = 2 (after two one-word instructions from new()), the
\* host having placed a program at PC and a data word at address 0 with
\* set_memory.  SP as in InitRun.
InitProg ==
    /\ kind = "VCPU16"
    /\ overflow_checks \in BOOLEAN
    /\ big_endian = FALSE
    /\ \E pc \in ProgPCs, sp \in ProgSPs, p \in Programs, d \in ProgData :
        /\ overflow_checks => sp <= 2 * pc
        /\ registers = [ZeroRegisters EXCEPT ![PC] = pc, ![SP] = sp]
        /\ memory = memory_write(memory_write(memory_write(memory_write(
                        EmptyWords, 0, d), pc + 2, p[3]), pc + 1, p[2]), pc, p[1])
        /\ last = Call("set_memory", pc, p[1])
    /\ state = Idle
    /\ panicked = FALSE
    /\ written = NoImage
    /\ loaded = NoImage
    /\ decoded = NoDecoded
    /\ entry = registers
    /\ data = <<>>
    /\ free = <<>>
    /\ ticks = 0

NextProg ==
    \/ step

SpecProg == InitProg /\ [][NextProg]_vars

\* ------------------------------------------- a VCPU16 in any of its States
\* enum State
NOP == [op |-> "NOP"]
Busy(time, instr) == [tag |-> "Busy", time |-> time, instruction |-> instr]
Sleeping(time) == [tag |-> "Sleeping", time |-> time]
Hibernating == [tag |-> "Hibernating"]
Halted == [tag |-> "Halted"]
SleepTimes == {0, 1, 2, 3}
BusyTimes == {1, 2}
States == {Idle, Hibernating, Halted}
            \cup {Sleeping(n) : n \in SleepTimes}
            \cup {Busy(n, NOP) : n \in BusyTimes}
StateWords == {NOP_word, HIB_word, SET_PUSH_7, SET_A_POP}

\* step matches on all five variants of State, but only new() (Idle) and
\* the Sleeping arm of step assign the private field `state`; the other
\* variants are the values a struct literal written inside module vcpu::cpu
\* gives it.  Here the object starts in any of them, a data word at address
\* 0 and an instruction at PC = 2.
InitStates ==
    /\ kind = "VCPU16"
    /\ overflow_checks \in BOOLEAN
    /\ big_endian = FALSE
    /\ state \in States
    /\ \E pc \in ProgPCs, w \in StateWords, d \in ProgData :
        /\ registers = [ZeroRegisters EXCEPT ![PC] = pc]
        /\ memory = memory_write(memory_write(EmptyWords, 0, d), pc, w)
        /\ last = Call("set_memory", pc, w)
    /\ panicked = FALSE
    /\ written = NoImage
    /\ loaded = NoImage
    /\ decoded = NoDecoded
    /\ entry = registers
    /\ data = <<>>
    /\ free = <<>>
    /\ ticks = 0

NextStates ==
    \/ step

SpecStates == InitStates /\ [][NextStates]_vars

\* ------------------------------------- the decoder on any register file
\* every operand code of the a-field
OperandCodes == 0..63
\* <<b-field, opcode>>: NOP/HIB/ERR, JSR, SLP, an unassigned unary b-field,
\* SET A, SET NEXT-literal and the unassigned binary opcode 0x18
OperandForms == {<<0, 0>>, <<1, 0>>, <<2, 0>>, <<3, 0>>, <<0, 1>>, <<31, 1>>, <<0, 24>>}
\* the word after the instruction
OperandNextWords == {9, 65535}
\* a register file whose general registers all differ: A..J = 16..23, SP = 24
DistinctRegisters ==
    [r \in 0..11 |-> IF r \in 0..7 THEN 16 + r ELSE IF r = SP THEN 24 ELSE 0]
OperandRegisters == {ZeroRegisters, DistinctRegisters}

\* decode takes the whole register file as its input.  No method of VCPU16
\* writes a general register, so after new() they all hold 0; a file whose
\* registers differ is the value a struct literal written inside module
\* vcpu::cpu gives.  Here the decoder starts on either, at PC = 2, with a
\* word made of any a-field, a data word at the address B holds and a NEXT
\* word.
InitOperands ==
    /\ kind = "VCPU16"
    /\ overflow_checks \in BOOLEAN
    /\ big_endian = FALSE
    /\ state = Idle
    /\ \E pc \in ProgPCs, regs \in OperandRegisters, a \in OperandCodes,
          f \in OperandForms, n \in OperandNextWords :
        /\ registers = [regs EXCEPT ![PC] = pc]
        /\ memory = memory_write(memory_write(memory_write(EmptyWords,
                        17, 5), pc + 1, n), pc, instruction(a, f[1], f[2]))
        /\ last = Call("set_memory", pc, instruction(a, f[1], f[2]))
    /\ panicked = FALSE
    /\ written = NoImage
    /\ loaded = NoImage
    /\ decoded = NoDecoded
    /\ entry = registers
    /\ data = <<>>
    /\ free = <<>>
    /\ ticks = 0

NextOperands ==
    \/ step

SpecOperands == InitOperands /\ [][NextOperands]_vars

\* --------------------------------------- the operand decoders on their own
\* decode_left and decode_right are private methods: code inside module
\* vcpu::cpu calls them on a VCPU16 with any instruction word.  (step reaches
\* decode_left through decode; nothing in the source calls decode_right.)
call_decode_left(w) ==
    /\ ~panicked
    /\ kind = "VCPU16"
    /\ ticks < MaxDecodes
    /\ ticks' = ticks + 1
    /\ LET d == decode_left(registers, memory, overflow_checks, w)
       IN  /\ registers' = d.registers
           /\ panicked' = d.panic
           /\ decoded' = IF d.panic THEN NoDecoded
                         ELSE [result |-> d.result, time |-> d.time]
    /\ written' = NoImage
    /\ last' = Call("decode_left", registers[PC], w)
    /\ entry' = registers
    /\ UNCHANGED <<kind, memory, state, overflow_checks, big_endian, loaded>>
    /\ UNCHANGED <<data, free>>

call_decode_right(w) ==
    /\ ~panicked
    /\ kind = "VCPU16"
    /\ ticks < MaxDecodes
    /\ ticks' = ticks + 1
    /\ LET d == decode_right(registers, memory, overflow_checks, w)
       IN  /\ registers' = d.registers
           /\ panicked' = d.panic
           /\ decoded' = IF d.panic THEN NoDecoded
                         ELSE [result |-> d.result, time |-> d.time]
    /\ written' = NoImage
    /\ last' = Call("decode_right", registers[PC], w)
    /\ entry' = registers
    /\ UNCHANGED <<kind, memory, state, overflow_checks, big_endian, loaded>>
    /\ UNCHANGED <<data, free>>

\* words whose a-field and b-field hold the same operand code
DecoderWords == {instruction(c, c, 1) : c \in 0..31}

\* The decoders start on either register file of OperandRegisters, PC = 3
\* pointing at a NEXT word, a data word at the address B holds.
InitDecoders ==
    /\ kind = "VCPU16"
    /\ overflow_checks \in BOOLEAN
    /\ big_endian = FALSE
    /\ state = Idle
    /\ \E regs \in OperandRegisters, n \in OperandNextWords :
        /\ registers = [regs EXCEPT ![PC] = 3]
        /\ memory = memory_write(memory_write(EmptyWords, 17, 5), 3, n)
        /\ last = Call("set_memory", 3, n)
    /\ panicked = FALSE
    /\ written = NoImage
    /\ loaded = NoImage
    /\ decoded = NoDecoded
    /\ entry = registers
    /\ data = <<>>
    /\ free = <<>>
    /\ ticks = 0

NextDecoders ==
    \/ \E w \in DecoderWords : call_decode_left(w)
    \/ \E w \in DecoderWords : call_decode_right(w)

SpecDecoders == InitDecoders /\ [][NextDecoders]_vars

\* ------------------------------------------- ComponentType (model/entity)
\* enum Component<C>
Present(c) == [tag |-> "Present", value |-> c]
Missing == [tag |-> "Missing"]
\* the components the caller adds
Components == {"c1", "c2"}
\* the indices the caller removes: those of data and one beyond
Indices == 0..MaxData

\* ComponentType::add: push when the free list is empty, else reuse the
\* index at the head of the free list.  `self.data[idx] = component` is read
\* as storing Component::Present(component), the slot then holding the
\* component; Vec index idx is element idx + 1 here.
add(component) ==
    /\ kind = "ComponentType"
    /\ IF free = <<>>
         THEN /\ Len(data) < MaxData
              /\ data' = Append(data, Present(component))
              /\ free' = free
              /\ last' = Call("add", Len(data), component)
              /\ panicked' = FALSE
         ELSE LET idx == Head(free)
              IN  /\ free' = Tail(free)
                  /\ data' = [data EXCEPT ![idx + 1] = Present(component)]
                  /\ last' = Call("add", idx, component)
                  /\ panicked' = FALSE
    /\ UNCHANGED <<kind, registers, memory, state, overflow_checks, big_endian,
                   written, loaded, decoded, ticks, entry>>

\* ComponentType::remove: mark the slot Missing and push its index
remove(idx) ==
    /\ kind = "ComponentType"
    /\ Len(free) < MaxFree
    /\ IF idx < Len(data)
         THEN /\ data' = [data EXCEPT ![idx + 1] = Missing]
              /\ free' = Append(free, idx)
         ELSE UNCHANGED <<data, free>>
    /\ last' = Call("remove", idx, 0)
    /\ UNCHANGED <<kind, registers, memory, state, panicked, overflow_checks,
                   big_endian, written, loaded, decoded, ticks, entry>>

\* ComponentType::new()
InitComponents ==
    /\ kind = "ComponentType"
    /\ data = <<>>
    /\ free = <<>>
    /\ registers = ZeroRegisters
    /\ memory = EmptyWords
    /\ state = Idle
    /\ panicked = FALSE
    /\ overflow_checks = FALSE
    /\ big_endian = FALSE
    /\ written = NoImage
    /\ loaded = NoImage
    /\ last = Call("new", 0, 0)
    /\ decoded = NoDecoded
    /\ entry = registers
    /\ ticks = 0

NextComponents ==
    \/ \E c \in Components : add(c)
    \/ \E idx \in Indices : remove(idx)

SpecComponents == InitComponents /\ [][NextComponents]_vars

\* ------------------------------------------------------ fields of a word
a_field(w) == (w \div 1024) % 64
b_field(w) == (w \div 32) % 32
opcode(w) == w % 32
is_nullary(w) == w % 1024 = 0
is_unary(w) == w % 1024 # 0 /\ w % 32 = 0
is_binary(w) == w % 32 # 0
\* the operand codes that name NEXT
NextCodes == (16..23) \cup {26, 30, 31}
\* the word a step fetches
fetched_word == memory_read(memory, registers[PC])
\* the byte offsets and word indices that can differ from 0 around a load
ImageOffsets == DOMAIN loaded.bytes \cup UNION {{2 * a, 2 * a + 1} : a \in DOMAIN memory}

\* ---------------------------------------------------------------- claims

\* C1: for VCPU16 and Memory, load_memory of a 131,072-byte image X followed by
\* save_memory to a writer that does not fail writes exactly X: 131,072 bytes,
\* the same bytes in the same order.
C1_RoundTrip ==
    (/\ kind \in {"VCPU16", "Memory"}
     /\ last.op = "save_memory" /\ last.value # WriteErr
     /\ loaded.len = ImageBytes)
    => (~panicked /\ written = [len |-> ImageBytes, bytes |-> loaded.bytes])

\* C2: after load_memory of a 131,072-byte image every word i is
\* byte[2i] + 256 * byte[2i+1], and every byte save_memory hands to the writer
\* is the byte of that little-endian layout (offset j holds the low byte of
\* word j/2 when j is even, the high byte when j is odd).
C2_LittleEndian ==
    kind \in {"VCPU16", "Memory"} =>
      /\ (last.op = "load_memory" /\ ~panicked /\ loaded.len = ImageBytes) =>
            \A j \in ImageOffsets :
                memory_read(memory, j \div 2) =
                    image_byte(loaded, 2 * (j \div 2)) +
                    256 * image_byte(loaded, 2 * (j \div 2) + 1)
      /\ (last.op = "save_memory" /\ ~panicked) =>
            \A j \in {x \in ImageOffsets : x < written.len} :
                image_byte(written, j) =
                    IF j % 2 = 0 THEN memory_read(memory, j \div 2) % 256
                    ELSE memory_read(memory, j \div 2) \div 256

\* C3: load_memory from a reader that holds fewer than 131,072 bytes returns
\* to its caller (with an error) instead of aborting.
C3_ShortReadReturns ==
    (/\ kind \in {"VCPU16", "Memory"}
     /\ last.op = "load_memory" /\ last.address < ImageBytes)
    => ~panicked

\* C4: right after VCPU16::new every memory word is 0, each of the twelve
\* registers is 0 and the execution state is Idle.
C4_NewIsZero ==
    (kind = "VCPU16" /\ last.op = "new") =>
        /\ DOMAIN memory = {}
        /\ \A r \in 0..11 : registers[r] = 0
        /\ state.tag = "Idle"
C4_Witness == kind = "VCPU16" /\ last.op = "new" /\ ~panicked

\* C5: for VCPU16 and Memory, set_memory(a, v) returns normally, stores v in
\* word a and changes no other word, no register and not the execution
\* state; get_memory(a) returns normally with the word stored at a.
C5_SetGetMemory_Step ==
    kind \in {"VCPU16", "Memory"} =>
        /\ last'.op = "set_memory" =>
            /\ ~panicked'
            /\ memory_read(memory', last'.address) = last'.value
            /\ \A x \in (DOMAIN memory \cup DOMAIN memory') \ {last'.address} :
                    memory_read(memory', x) = memory_read(memory, x)
            /\ registers' = registers
            /\ state' = state
        /\ last'.op = "get_memory" =>
            /\ ~panicked'
            /\ last'.value = memory_read(memory, last'.address)
            /\ memory' = memory /\ registers' = registers
C5_SetGetMemory == [][C5_SetGetMemory_Step]_vars
C5_Witness ==
    /\ kind = "Memory" /\ last.op = "set_memory" /\ ~panicked
    /\ last.address = 65535 /\ last.value = 65535
    /\ memory_read(memory, 65535) = 65535 /\ memory_read(memory, 0) = 24577

\* C6: HiveCPU: set_memory and get_memory return normally for every address
\* 0x0000..0xFFFF, and a load_memory that succeeds has read 131,072 bytes.
C6_HiveCPUFlatStore ==
    kind = "HiveCPU" =>
      /\ last.op \in {"set_memory", "get_memory"} => ~panicked
      /\ (last.op = "load_memory" /\ ~panicked) => last.address >= ImageBytes

\* C7: PC and SP wrap modulo 2^16: a step that fetches a nullary word at
\* PC = 0xFFFF leaves PC = 0; a unary instruction at PC = 0xFFFE whose operand
\* names NEXT leaves PC = 0; a unary instruction whose operand is POP at
\* SP = 0xFFFF leaves SP = 0; a binary instruction whose destination is PUSH
\* (and whose source is not POP) at SP = 0 leaves SP = 0xFFFF.
C7_PCSPWrap_Step ==
    (kind = "VCPU16" /\ last'.op = "step") =>
        /\ (is_nullary(fetched_word) /\ registers[PC] = 65535) =>
                (~panicked' /\ registers'[PC] = 0)
        /\ (is_unary(fetched_word) /\ a_field(fetched_word) \in NextCodes
                /\ registers[PC] = 65534) =>
                (~panicked' /\ registers'[PC] = 0)
        /\ (is_unary(fetched_word) /\ a_field(fetched_word) = 24
                /\ registers[SP] = 65535) =>
                (~panicked' /\ registers'[SP] = 0)
        /\ (is_binary(fetched_word) /\ b_field(fetched_word) = 24
                /\ a_field(fetched_word) # 24 /\ registers[SP] = 0) =>
                (~panicked' /\ registers'[SP] = 65535)
C7_PCSPWrap == [][C7_PCSPWrap_Step]_vars

\* C8: a call of step returns normally, whatever the registers and the
\* memory hold.
C8_StepReturns == (kind = "VCPU16" /\ last.op = "step") => ~panicked

\* C9: a step that returns has evaluated the a-field of its (unary or binary)
\* instruction exactly once: POP has added exactly 1 to SP, and a NEXT code
\* has advanced PC by exactly 1 beyond the instruction word and the NEXT word
\* of the b-field, if the instruction is binary and its b-field names NEXT.
C9_OperandOnce_Step ==
    (kind = "VCPU16" /\ last'.op = "step" /\ ~panicked'
            /\ ~is_nullary(fetched_word)) =>
        LET w  == fetched_word
            kb == IF is_binary(w) /\ b_field(w) \in NextCodes THEN 1 ELSE 0
        IN  /\ a_field(w) = 24 => registers'[SP] = (registers[SP] + 1) % WordMod
            /\ a_field(w) \in NextCodes =>
                    registers'[PC] = (registers[PC] + 1 + kb + 1) % WordMod
C9_OperandOnce == [][C9_OperandOnce_Step]_vars

\* C10: a step that returns from a non-IFx instruction that does not write PC
\* itself (not JSR, not RFI, destination not PC) leaves
\* PC = (old PC + 1 + k) mod 2^16, k the number of operand fields of the word
\* that name NEXT.
C10_PCAdvance_Step ==
    (kind = "VCPU16" /\ last'.op = "step" /\ ~panicked') =>
        LET w  == fetched_word
            ka == IF ~is_nullary(w) /\ a_field(w) \in NextCodes THEN 1 ELSE 0
            kb == IF is_binary(w) /\ b_field(w) \in NextCodes THEN 1 ELSE 0
        IN  (/\ ~(is_binary(w) /\ opcode(w) \in 16..23)
             /\ ~(is_unary(w) /\ b_field(w) \in {1, 11})
             /\ ~(is_binary(w) /\ b_field(w) = 28))
            => registers'[PC] = (registers[PC] + 1 + ka + kb) % WordMod
C10_PCAdvance == [][C10_PCAdvance_Step]_vars

\* C11: one tick of a CPU in Sleeping(n) yields Active (Idle) when n = 1 and
\* Sleeping(n-1) when n > 1, so that a CPU in Sleeping(n), n >= 1, is Active
\* after exactly n ticks.
C11_SleepCountdown_Step ==
    (kind = "VCPU16" /\ last'.op = "step"
            /\ state.tag = "Sleeping" /\ state.time >= 1) =>
        state' = IF state.time = 1 THEN Idle ELSE Sleeping(state.time - 1)
C12_Latency_Step ==
    (kind = "VCPU16" /\ last'.op = "step" /\ ~panicked') =>
        /\ state.tag = "Idle" =>
            IF decoded'.time > 1
              THEN state'.tag = "Busy" /\ state'.time = decoded'.time - 1
              ELSE state' = Idle
        /\ state.tag = "Busy" =>
            IF state.time = 1
              THEN state' = Idle
              ELSE state'.tag = "Busy" /\ state'.time = state.time - 1
C12_Latency == [][C12_Latency_Step]_vars

\* C13: a tick of a CPU whose state is Halted leaves the state Halted and
\* leaves every register and every memory word unchanged.
C13_HaltedAbsorbing_Step ==
    (kind = "VCPU16" /\ last'.op = "step" /\ state.tag = "Halted") =>
        /\ state'.tag = "Halted"
        /\ registers' = registers
        /\ memory' = memory
C13_HaltedAbsorbing == [][C13_HaltedAbsorbing_Step]_vars
\* a Halted CPU has been stepped
C13_Witness ==
    kind = "VCPU16" /\ last.op = "step" /\ state.tag = "Halted" /\ ~panicked

\* C14: a tick that executes HIB leaves the CPU Hibernating; a tick of a
\* Hibernating CPU that has no interrupt pending (VCPU16 holds no interrupt
\* at all) changes neither the state nor a register nor a memory word.
C14_Hibernation_Step ==
    (kind = "VCPU16" /\ last'.op = "step" /\ ~panicked') =>
        /\ (state.tag = "Idle" /\ fetched_word = 1024) =>
                state'.tag = "Hibernating"
        /\ state.tag = "Hibernating" =>
                (state' = state /\ registers' = registers /\ memory' = memory)
C14_Hibernation == [][C14_Hibernation_Step]_vars

\* C16: a step that executes an instruction other than ADD, SUB, MUL, MLI,
\* DIV, DVI, SHR, ASR, SHL, ADX and SBX, and whose destination operand is not
\* the EX register, leaves EX unchanged.
C16_EXPreserved_Step ==
    (kind = "VCPU16" /\ last'.op = "step" /\ ~panicked') =>
        LET w == fetched_word
        IN  (/\ ~(is_binary(w) /\ opcode(w) \in {2, 3, 4, 5, 6, 7, 13, 14, 15, 26, 27})
             /\ ~(is_binary(w) /\ b_field(w) = 29)
             /\ ~(is_unary(w) /\ a_field(w) = 29))
            => registers'[EX] = registers[EX]
C16_EXPreserved == [][C16_EXPreserved_Step]_vars
\* a step has executed a SET whose destination is not EX
C16_Witness ==
    /\ kind = "VCPU16" /\ last.op = "step" /\ ~panicked
    /\ decoded.result.op = "SET" /\ b_field(last.value) # 29

\* C17: a step that executes DIV b, a or DVI b, a with a = 0 leaves b = 0 and
\* EX = 0, and one that executes MOD b, a with a = 0 leaves b = 0; the state
\* is not Halted afterwards.  Here a is the literal 0 and b is a general
\* register or the memory word a general register points to.
C17_DivByZero_Step ==
    (kind = "VCPU16" /\ last'.op = "step" /\ ~panicked'
            /\ is_binary(fetched_word) /\ opcode(fetched_word) \in {6, 7, 8}
            /\ a_field(fetched_word) = 33 /\ b_field(fetched_word) \in 0..15) =>
        LET w == fetched_word
            b == b_field(w)
        IN  /\ b \in 0..7 => registers'[b] = 0
            /\ b \in 8..15 => memory_read(memory', registers[b - 8]) = 0
            /\ opcode(w) \in {6, 7} => registers'[EX] = 0
            /\ state'.tag # "Halted"
C17_DivByZero == [][C17_DivByZero_Step]_vars

\* C18: a step that executes JSR L leaves SP = (old SP - 1) mod 2^16,
\* memory[new SP] = the address of the word that follows the JSR instruction
\* (its NEXT word included) and PC = L.  Here L is a literal: the NEXT word
\* (0x1F) or an inline literal (0x20..0x3F).
C18_JSR_Step ==
    (kind = "VCPU16" /\ last'.op = "step" /\ ~panicked'
            /\ is_unary(fetched_word) /\ b_field(fetched_word) = 1
            /\ a_field(fetched_word) \in 31..63) =>
        LET a      == a_field(fetched_word)
            pc     == registers[PC]
            L      == IF a = 31 THEN memory_read(memory, (pc + 1) % WordMod)
                      ELSE (a - 33 + WordMod) % WordMod
            follow == IF a = 31 THEN (pc + 2) % WordMod ELSE (pc + 1) % WordMod
            new_sp == (registers[SP] - 1 + WordMod) % WordMod
        IN  /\ registers'[SP] = new_sp
            /\ memory_read(memory', new_sp) = follow
            /\ registers'[PC] = L
C18_JSR == [][C18_JSR_Step]_vars

\* C19: a step that executes an IFx whose test fails skips the next
\* instruction: PC ends past it and its NEXT words, no other register and no
\* memory word changes, and the cost is the IFx base plus 1; a skipped IFx
\* makes the step skip the instruction after it too, at 1 more cycle.  A
\* step whose test succeeds leaves PC at the next instruction, at the base
\* cost.  Here the IFx is IFE or IFN on two general registers.
C19_ConditionalSkip_Step ==
    (kind = "VCPU16" /\ last'.op = "step" /\ ~panicked'
            /\ is_binary(fetched_word) /\ opcode(fetched_word) \in {18, 19}
            /\ a_field(fetched_word) \in 0..7 /\ b_field(fetched_word) \in 0..7) =>
        LET w       == fetched_word
            pc      == registers[PC]
            equal   == registers[b_field(w)] = registers[a_field(w)]
            fails   == IF opcode(w) = 18 THEN ~equal ELSE equal
            size(x) == 1 + (IF ~is_nullary(x) /\ a_field(x) \in NextCodes THEN 1 ELSE 0)
                         + (IF is_binary(x) /\ b_field(x) \in NextCodes THEN 1 ELSE 0)
            is_if(x) == is_binary(x) /\ opcode(x) \in 16..23
            w1      == memory_read(memory, (pc + 1) % WordMod)
            w2      == memory_read(memory, (pc + 1 + size(w1)) % WordMod)
        IN  /\ memory' = memory
            /\ \A r \in 0..11 : r # PC => registers'[r] = registers[r]
            /\ ~fails => (registers'[PC] = (pc + 1) % WordMod /\ decoded'.time = 2)
            /\ (fails /\ ~is_if(w1)) =>
                    /\ registers'[PC] = (pc + 1 + size(w1)) % WordMod
                    /\ decoded'.time = 3
            /\ (fails /\ is_if(w1) /\ ~is_if(w2)) =>
                    /\ registers'[PC] = (pc + 1 + size(w1) + size(w2)) % WordMod
                    /\ decoded'.time = 4
C19_ConditionalSkip == [][C19_ConditionalSkip_Step]_vars

\* C20: from SP = s, a step that executes SET PUSH, x followed by a step that
\* executes SET r, POP (r a general register) leaves SP = s and r = x.  Here
\* x is an inline literal; `entry` holds the registers before the first of the
\* two steps and `last` the word that step fetched.
C20_PushPop_Step ==
    (kind = "VCPU16" /\ last.op = "step" /\ last'.op = "step"
            /\ ~panicked /\ ~panicked'
            /\ is_binary(last.value) /\ opcode(last.value) = 1
            /\ b_field(last.value) = 24 /\ a_field(last.value) \in 32..63
            /\ registers[PC] = (last.address + 1) % WordMod
            /\ is_binary(fetched_word) /\ opcode(fetched_word) = 1
            /\ a_field(fetched_word) = 24 /\ b_field(fetched_word) \in 0..7) =>
        LET x == (a_field(last.value) - 33 + WordMod) % WordMod
            r == b_field(fetched_word)
        IN  /\ registers'[SP] = entry[SP]
            /\ registers'[r] = x
C20_PushPop == [][C20_PushPop_Step]_vars

\* C21: a step that executes a binary instruction whose destination operand
\* is a literal (b-code 0x1F) and returns stores nothing: no memory word and no
\* register other than PC and SP changes and the machine is not Halted, while
\* the changes the decoding made persist: PC has left the instruction word
\* and, when the source operand is POP, SP has left its old value.
C21_LiteralWriteDiscarded_Step ==
    (kind = "VCPU16" /\ last'.op = "step" /\ ~panicked'
            /\ is_binary(fetched_word) /\ b_field(fetched_word) = 31) =>
        /\ memory' = memory
        /\ \A r \in 0..11 : r \notin {PC, SP} => registers'[r] = registers[r]
        /\ state'.tag # "Halted"
        /\ registers'[PC] # registers[PC]
        /\ a_field(fetched_word) = 24 => registers'[SP] # registers[SP]
C21_LiteralWriteDiscarded == [][C21_LiteralWriteDiscarded_Step]_vars
\* a step has executed an instruction whose destination is a literal and
\* whose source is POP, and has returned
C21_Witness ==
    /\ kind = "VCPU16" /\ last.op = "step" /\ ~panicked
    /\ is_binary(last.value) /\ b_field(last.value) = 31
    /\ a_field(last.value) = 24
    /\ registers[SP] # entry[SP]

C23_ERRIsNOP_Step ==
    (kind = "VCPU16" /\ last'.op = "step" /\ ~panicked'
            /\ \/ is_nullary(fetched_word) /\ a_field(fetched_word) >= 2
               \/ is_unary(fetched_word)
                    /\ b_field(fetched_word) \notin {1, 2, 8, 9, 10, 11, 12, 16, 17, 18}
               \/ is_binary(fetched_word)
                    /\ opcode(fetched_word) \in {24, 25, 28, 29}) =>
        /\ memory' = memory
        /\ \A r \in 0..11 : r # PC => registers'[r] = registers[r]
        /\ state'.tag # "Halted"
C23_ERRIsNOP == [][C23_ERRIsNOP_Step]_vars

\* C24: decode classifies the word w it fetches by its fields: w is nullary
\* iff its opcode field and its b-field are both 0, and then yields NOP for
\* a-field 0, HIB for a-field 1 and ERR for any other a-field, decoding no
\* operand; w is unary iff its opcode field is 0 and its b-field is not: one
\* operand; w is binary iff its opcode field is not 0: two operands.
C24_Classification ==
    (kind = "VCPU16" /\ last.op = "step" /\ ~panicked /\ state.tag = "Idle") =>
        LET w == last.value
            r == decoded.result
        IN  /\ (opcode(w) = 0 /\ b_field(w) = 0) =>
                /\ r = [op |-> IF a_field(w) = 0 THEN "NOP"
                               ELSE IF a_field(w) = 1 THEN "HIB" ELSE "ERR"]
                /\ decoded.time = 0
                /\ registers[PC] = (entry[PC] + 1) % WordMod
                /\ registers[SP] = entry[SP]
            /\ (opcode(w) = 0 /\ b_field(w) # 0) =>
                /\ r.op \notin {"NOP", "HIB"}
                /\ r.op # "ERR" => DOMAIN r = {"op", "left"}
                /\ r.op = "ERR" => decoded.time = 0
            /\ opcode(w) # 0 =>
                /\ r.op \notin {"NOP", "HIB"}
                /\ r.op # "ERR" => DOMAIN r = {"op", "left", "right"}
                /\ r.op = "ERR" => decoded.time = 1
\* a step has decoded HIB
C24_Witness ==
    /\ kind = "VCPU16" /\ last.op = "step" /\ ~panicked /\ state.tag = "Idle"
    /\ last.value = 1024 /\ decoded.result.op = "HIB"

\* C25: a unary word decodes by its b-field to JSR (0x01, 3 cycles), SLP
\* (0x02), INT (0x08, 4), IAG (0x09, 1), IAS (0x0A, 1), RFI (0x0B, 3), IAQ
\* (0x0C, 2), HWN (0x10, 2), HWQ (0x11, 4), HWI (0x12, 4), with one operand,
\* at its base cycles plus 1 when the operand names NEXT; every other
\* b-field decodes to ERR.
C25_UnaryTable ==
    (kind = "VCPU16" /\ last.op = "step" /\ ~panicked /\ state.tag = "Idle"
            /\ is_unary(last.value)) =>
        LET b     == b_field(last.value)
            extra == IF a_field(last.value) \in NextCodes THEN 1 ELSE 0
            names == (1 :> "JSR") @@ (2 :> "SLP") @@ (8 :> "INT") @@ (9 :> "IAG") @@
                     (10 :> "IAS") @@ (11 :> "RFI") @@ (12 :> "IAQ") @@
                     (16 :> "HWN") @@ (17 :> "HWQ") @@ (18 :> "HWI")
            base  == (1 :> 3) @@ (8 :> 4) @@ (9 :> 1) @@ (10 :> 1) @@ (11 :> 3) @@
                     (12 :> 2) @@ (16 :> 2) @@ (17 :> 4) @@ (18 :> 4)
        IN  /\ b \in DOMAIN names =>
                (decoded.result.op = names[b] /\ DOMAIN decoded.result = {"op", "left"})
            /\ b \in DOMAIN base => decoded.time = base[b] + extra
            /\ b \notin DOMAIN names => decoded.result.op = "ERR"

C27_NextOperand ==
    (kind = "VCPU16" /\ last.op = "step" /\ ~panicked /\ state.tag = "Idle"
            /\ is_unary(last.value) /\ b_field(last.value) = 1
            /\ a_field(last.value) \in NextCodes) =>
        LET c    == a_field(last.value)
            next == memory_read(memory, (entry[PC] + 1) % WordMod)
        IN  /\ registers[PC] = (entry[PC] + 2) % WordMod
            /\ decoded.time = 3 + 1
            /\ c = 31 => decoded.result.left = [kind |-> "Literal", value |-> next]
            /\ c = 30 => decoded.result.left =
                    [kind |-> "Memory", address |-> next,
                     value |-> memory_read(memory, next)]

\* C28: for operand codes 0x10..0x17 ([register + NEXT]) and 0x1A (PICK,
\* [SP + NEXT]) the referenced address is (base + NEXT) mod 2^16, sums of 2^16
\* or more included, and the decoding completes without a fault.  Here the
\* operand is that of JSR or the source of a SET to a general register, and
\* PC is far enough from 0xFFFF for the fetches themselves not to wrap.
C28_IndexedWrap_Step ==
    (kind = "VCPU16" /\ last'.op = "step" /\ state.tag = "Idle"
            /\ registers[PC] < 65532
            /\ a_field(fetched_word) \in (16..23) \cup {26}
            /\ \/ is_unary(fetched_word) /\ b_field(fetched_word) = 1
               \/ is_binary(fetched_word) /\ opcode(fetched_word) = 1
                    /\ b_field(fetched_word) \in 0..7) =>
        LET c    == a_field(fetched_word)
            base == IF c = 26 THEN registers[SP] ELSE registers[c - 16]
            next == memory_read(memory, registers[PC] + 1)
        IN  /\ ~panicked'
            /\ decoded'.result.left.kind = "Memory"
            /\ decoded'.result.left.address = (base + next) % WordMod
C28_IndexedWrap == [][C28_IndexedWrap_Step]_vars

\* C29: in a binary instruction the destination operand is decoded from the
\* b-field and the source operand from the a-field; b-code 0x18 is PUSH: SP
\* becomes (SP - 1) mod 2^16 and the destination is memory[new SP].  Here the
\* instruction is a SET whose source is an inline literal and whose
\* destination is a general register or PUSH; `right` is the destination and
\* `left` the source of the decoded Instruction.
C29_DestinationFromB_Step ==
    (kind = "VCPU16" /\ last'.op = "step" /\ ~panicked' /\ state.tag = "Idle"
            /\ is_binary(fetched_word) /\ opcode(fetched_word) = 1
            /\ a_field(fetched_word) \in 32..63
            /\ b_field(fetched_word) \in (0..7) \cup {24}) =>
        LET a      == a_field(fetched_word)
            b      == b_field(fetched_word)
            new_sp == (registers[SP] - 1 + WordMod) % WordMod
        IN  /\ decoded'.result.left =
                    [kind |-> "Literal", value |-> (a - 33 + WordMod) % WordMod]
            /\ b \in 0..7 =>
                /\ decoded'.result.right =
                        [kind |-> "Register", register |-> b, value |-> registers[b]]
                /\ registers'[SP] = registers[SP]
            /\ b = 24 =>
                /\ registers'[SP] = new_sp
                /\ decoded'.result.right =
                        [kind |-> "Memory", address |-> new_sp,
                         value |-> memory_read(memory, new_sp)]
C29_DestinationFromB == [][C29_DestinationFromB_Step]_vars

\* C30: in a binary instruction the destination (b) operand is decoded before
\* the source (a) operand: when both name NEXT, b consumes the word at the
\* instruction address + 1 and a the word at the instruction address + 2; a
\* PUSH in b takes effect on SP before a POP or PEEK in a reads SP.  Here the
\* NEXT codes are 0x1E and 0x1F; `right` is the b operand and `left` the a
\* operand of the decoded Instruction.
C30_DecodeOrder_Step ==
    (kind = "VCPU16" /\ last'.op = "step" /\ ~panicked' /\ state.tag = "Idle"
            /\ is_binary(fetched_word)
            /\ opcode(fetched_word) \notin {24, 25, 28, 29}) =>
        LET a      == a_field(fetched_word)
            b      == b_field(fetched_word)
            pc     == registers[PC]
            n1     == memory_read(memory, (pc + 1) % WordMod)
            n2     == memory_read(memory, (pc + 2) % WordMod)
            pushed == (registers[SP] - 1 + WordMod) % WordMod
            operand(c, n) == IF c = 31 THEN [kind |-> "Literal", value |-> n]
                             ELSE [kind |-> "Memory", address |-> n,
                                   value |-> memory_read(memory, n)]
        IN  /\ (a \in {30, 31} /\ b \in {30, 31}) =>
                /\ decoded'.result.right = operand(b, n1)
                /\ decoded'.result.left = operand(a, n2)
                /\ registers'[PC] = (pc + 3) % WordMod
            /\ (b = 24 /\ a \in {24, 25}) =>
                /\ decoded'.result.right.address = pushed
                /\ decoded'.result.left.address = pushed
                /\ registers'[SP] = IF a = 24 THEN registers[SP] ELSE pushed
C30_DecodeOrder == [][C30_DecodeOrder_Step]_vars

\* C31: for every operand code c in 0x00..0x17 and 0x19..0x1F, decode_right
\* on a word whose b-field is c yields what decode_left yields on a word whose
\* a-field is c, started from the same state: the same operand (kind,
\* register or address, captured value), the same extra cycles, the same
\* registers afterwards (PC and SP included) and the same fault, if any.
C31_TablesAgree ==
    (kind = "VCPU16" /\ last.op = "decode_right" /\ b_field(last.value) # 24) =>
        LET l == decode_left(entry, memory, overflow_checks,
                             instruction(b_field(last.value), 0, 1))
        IN  /\ panicked = l.panic
            /\ registers = l.registers
            /\ ~panicked => decoded = [result |-> l.result, time |-> l.time]
\* decode_right has decoded [B] on a register file where A and B differ
C31_Witness ==
    /\ kind = "VCPU16" /\ last.op = "decode_right" /\ ~panicked
    /\ b_field(last.value) = 9 /\ entry[A] # entry[B]
    /\ decoded.result.kind = "Memory"

\* C32: the cost that decoding a binary instruction reports is its base
\* cycles (SET 1; ADD, SUB, MUL, MLI 2; DIV, DVI, MOD, MDI 3; AND, BOR, XOR,
\* SHR, ASR, SHL 1; IFB..IFU 2; ADX, SBX 3; STI, STD 2) plus 1 for each of
\* its two operands that names NEXT.
C32_BinaryCost ==
    (kind = "VCPU16" /\ last.op = "step" /\ ~panicked /\ state.tag = "Idle"
            /\ is_binary(last.value)
            /\ opcode(last.value) \notin {24, 25, 28, 29}) =>
        LET w    == last.value
            o    == opcode(w)
            base == IF o \in {1} \cup (10..15) THEN 1
                    ELSE IF o \in (2..5) \cup (16..23) \cup {30, 31} THEN 2
                    ELSE 3
            ka   == IF a_field(w) \in NextCodes THEN 1 ELSE 0
            kb   == IF b_field(w) \in NextCodes THEN 1 ELSE 0
        IN  decoded.time = base + ka + kb

\* C33: for every a-code c in 0x20..0x3F the decoded operand is
\* Literal((c - 0x21) mod 2^16): 0xFFFF for 0x20 and 0..30 for 0x21..0x3F, at
\* 0 extra cycles and with no change to a register or a memory word.  Here
\* the operand is that of JSR (base 3 cycles): the step changes PC by the
\* fetch of the instruction word and nothing else.
C33_SmallLiterals_Step ==
    (kind = "VCPU16" /\ last'.op = "step" /\ state.tag = "Idle"
            /\ registers[PC] < 65535
            /\ is_unary(fetched_word) /\ b_field(fetched_word) = 1
            /\ a_field(fetched_word) \in 32..63) =>
        /\ ~panicked'
        /\ decoded'.result.left =
                [kind |-> "Literal",
                 value |-> (a_field(fetched_word) - 33 + WordMod) % WordMod]
        /\ decoded'.time = 3
        /\ registers' = [registers EXCEPT ![PC] = registers[PC] + 1]
        /\ memory' = memory
C33_SmallLiterals == [][C33_SmallLiterals_Step]_vars
\* a step has decoded JSR with the inline literal 0xFFFF (code 0x20)
C33_Witness ==
    /\ kind = "VCPU16" /\ last.op = "step" /\ ~panicked
    /\ is_unary(last.value) /\ b_field(last.value) = 1
    /\ a_field(last.value) = 32
    /\ decoded.result.left.value = 65535

C35_OnlyPCSP_Step ==
    (kind = "VCPU16" /\ last'.op = "step") =>
        /\ memory' = memory
        /\ \A r \in (0..7) \cup {EX, IA} : registers'[r] = registers[r]
C36_SaveComplete_Step ==
    (kind \in {"VCPU16", "Memory"} /\ last'.op = "save_memory" /\ ~panicked') =>
        /\ written'.len = 131072
        /\ memory' = memory
C36_SaveComplete == [][C36_SaveComplete_Step]_vars

\* C37: the index that add returns refers to a slot that held no Present
\* component just before the call (a new slot or a Missing one), whatever
\* add and remove calls came before, repeated removes of one index included:
\* two live components never share an index.
C37_NoOverwrite_Step ==
    (kind = "ComponentType" /\ last'.op = "add") =>
        LET idx == last'.address
        IN  idx < Len(data) => data[idx + 1].tag # "Present"
C37_NoOverwrite == [][C37_NoOverwrite_Step]_vars

\* C38: after every add and remove call the free list holds no index twice,
\* every index in it is less than the length of data and names a Missing
\* slot, and every Missing slot is in the free list; a remove with an index
\* >= the length of data changes neither data nor the free list.
C38_FreeList_Step ==
    kind = "ComponentType" =>
        /\ \A i, j \in 1..Len(free') : free'[i] = free'[j] => i = j
        /\ \A i \in 1..Len(free') :
                free'[i] < Len(data') /\ data'[free'[i] + 1].tag = "Missing"
        /\ \A k \in 1..Len(data') :
                data'[k].tag = "Missing" => \E i \in 1..Len(free') : free'[i] = k - 1
        /\ (last'.op = "remove" /\ last'.address >= Len(data)) =>
                (data' = data /\ free' = free)
C38_FreeList == [][C38_FreeList_Step]_vars

TypeOK ==
    /\ kind \in Kinds \cup {"ComponentType"}
    /\ panicked \in BOOLEAN
    /\ \A a \in DOMAIN memory : a \in 0..(array_len(kind) - 1) /\ memory[a] \in 1..(WordMod - 1)
    /\ \A r \in 0..11 : registers[r] \in 0..(WordMod - 1)
====
